---- MODULE Spec2Model ----
(***************************************************************************)
(* Model of the query safety / execution engine (src/src/query_executor.py)*)
(* and of the retry-driven generation loop (src/main.py, process_query).   *)
(*                                                                         *)
(* Text is modelled as a sequence of one-character strings, so that the    *)
(* string operations of the code (upper, strip, split, startswith,         *)
(* endswith, substring and regular-expression search) are computed the way *)
(* Python computes them.                                                   *)
(***************************************************************************)
EXTENDS Integers, Sequences, FiniteSets, TLC

(***************************************************************************)
(* Bounds of the model                                                     *)
(***************************************************************************)
\* longest candidate, counted in tokens of Tokens
MaxTokens == 3
\* rows stored in the table of the modelled database
MaxRows == 4
\* execute() calls made on one executor in the executor specification
MaxCalls == 1

(***************************************************************************)
(* Characters and Python's str methods                                     *)
(***************************************************************************)
LowerLetters ==
  << "a","b","c","d","e","f","g","h","i","j","k","l","m",
     "n","o","p","q","r","s","t","u","v","w","x","y","z" >>

UpperLetters ==
  << "A","B","C","D","E","F","G","H","I","J","K","L","M",
     "N","O","P","Q","R","S","T","U","V","W","X","Y","Z" >>

Digits == << "0","1","2","3","4","5","6","7","8","9" >>

Range(s) == { s[i] : i \in DOMAIN s }

LowerSet == Range(LowerLetters)

UpperSet == Range(UpperLetters)

DigitSet == Range(Digits)

\* str.isspace characters used by the model
Whitespace == { " ", "\n", "\t" }

\* "%" stands for the small letter j with caron (U+01F0), a letter whose capital
\* form is two characters: J and the combining caron (U+030C), written "^"
SmallJCaron == "%"

CombiningCaron == "^"

\* \w of Python's re module: the ASCII word characters and the letters beyond
\* them; a combining mark is no word character
WordChars == LowerSet \cup UpperSet \cup DigitSet \cup { "_", SmallJCaron }

RECURSIVE LetterMap(_, _, _)
\* the function that sends from[i] to to[i], for i in 1..n
LetterMap(from, to, n) ==
  IF n = 1 THEN from[1] :> to[1]
  ELSE (from[n] :> to[n]) @@ LetterMap(from, to, n - 1)

\* the capital of each small letter
UpperOf == LetterMap(LowerLetters, UpperLetters, 26)

\* the small letter of each capital
LowerOf == LetterMap(UpperLetters, LowerLetters, 26)

\* the value of each decimal digit
DigitValue == LetterMap(Digits, [ i \in 1..10 |-> i - 1 ], 10)

\* str.upper() of one character
UpperChar(ch) ==
  IF ch = SmallJCaron THEN << "J", CombiningCaron >>
  ELSE IF ch \in LowerSet THEN << UpperOf[ch] >>
  ELSE << ch >>

\* str.upper()
RECURSIVE Upper(_)
Upper(s) == IF s = << >> THEN << >> ELSE UpperChar(Head(s)) \o Upper(Tail(s))

\* str.lower()
Lower(s) == [ i \in 1..Len(s) |-> IF s[i] \in UpperSet THEN LowerOf[s[i]] ELSE s[i] ]

SetMin(S) == CHOOSE m \in S : \A x \in S : m <= x

SetMax(S) == CHOOSE m \in S : \A x \in S : m >= x

\* str.strip()
Strip(s) ==
  LET keep == { i \in 1..Len(s) : s[i] \notin Whitespace }
  IN  IF keep = {} THEN << >> ELSE SubSeq(s, SetMin(keep), SetMax(keep))

\* str.startswith(p)
StartsWith(s, p) == Len(p) <= Len(s) /\ SubSeq(s, 1, Len(p)) = p

\* str.endswith(p)
EndsWith(s, p) == Len(p) <= Len(s) /\ SubSeq(s, Len(s) - Len(p) + 1, Len(s)) = p

\* the positions at which p occurs in s
Occurrences(s, p) ==
  { i \in 1..(Len(s) - Len(p) + 1) : s[i] = p[1] /\ SubSeq(s, i, i + Len(p) - 1) = p }

\* p in s
Contains(s, p) == Occurrences(s, p) # {}

\* the positions matched by the regular expression \bp\b, p made of word characters
WordOccurrences(s, p) ==
  { i \in Occurrences(s, p) :
      /\ (i = 1 \/ s[i - 1] \notin WordChars)
      /\ (i + Len(p) - 1 = Len(s) \/ s[i + Len(p)] \notin WordChars) }

\* re.search(r'\bp\b', s) is not None
WordSearch(s, p) == WordOccurrences(s, p) # {}

\* str.split(sep) for a one-character separator
RECURSIVE Split(_, _)
Split(s, sep) ==
  LET at == { i \in 1..Len(s) : s[i] = sep }
  IN  IF at = {} THEN << s >>
      ELSE LET i == SetMin(at)
           IN  << SubSeq(s, 1, i - 1) >> \o Split(SubSeq(s, i + 1, Len(s)), sep)

\* str(n) for n >= 0
RECURSIVE IntToText(_)
IntToText(n) ==
  IF n < 10 THEN << Digits[n + 1] >>
  ELSE IntToText(n \div 10) \o << Digits[(n % 10) + 1] >>

\* str.join for a one-character separator
RECURSIVE Join(_, _)
Join(parts, sep) ==
  IF parts = << >> THEN << >>
  ELSE IF Len(parts) = 1 THEN parts[1]
  ELSE parts[1] \o << sep >> \o Join(Tail(parts), sep)

RECURSIVE Concat(_)
Concat(ss) == IF ss = << >> THEN << >> ELSE Head(ss) \o Concat(Tail(ss))


RECURSIVE TextToInt(_)
\* int(s) for a non-empty text of decimal digits
TextToInt(s) ==
  LET d == DigitValue[s[Len(s)]]
  IN  IF Len(s) = 1 THEN d ELSE 10 * TextToInt(SubSeq(s, 1, Len(s) - 1)) + d

\* Optional[str]
None == [ some |-> FALSE, text |-> << >> ]

Some(t) == [ some |-> TRUE, text |-> t ]

(***************************************************************************)
(* QueryExecutor: the validator                                            *)
(***************************************************************************)
KwInsert == << "I","N","S","E","R","T" >>

KwUpdate == << "U","P","D","A","T","E" >>

KwDelete == << "D","E","L","E","T","E" >>

KwDrop == << "D","R","O","P" >>

KwAlter == << "A","L","T","E","R" >>

KwCreate == << "C","R","E","A","T","E" >>

KwTruncate == << "T","R","U","N","C","A","T","E" >>

KwReplace == << "R","E","P","L","A","C","E" >>

KwSelect == << "S","E","L","E","C","T" >>

KwWith == << "W","I","T","H" >>

KwLimit == << "L","I","M","I","T" >>

\* the keywords of WRITE_PATTERNS, in the order of the list
WRITE_PATTERNS ==
  << KwInsert, KwUpdate, KwDelete, KwDrop, KwAlter, KwCreate, KwTruncate, KwReplace >>

\* the text of the pattern r'\bKW\b'
PatternText(kw) == << "\\", "b" >> \o kw \o << "\\", "b" >>

BlockedPrefix ==
  << "W","r","i","t","e"," ","o","p","e","r","a","t","i","o","n"," ",
     "b","l","o","c","k","e","d"," ","i","n"," ","r","e","a","d","-","o","n","l","y"," ",
     "m","o","d","e",":"," " >>

MultipleMessage ==
  << "M","u","l","t","i","p","l","e"," ","S","Q","L"," ","s","t","a","t","e","m","e","n","t","s"," ",
     "n","o","t"," ","a","l","l","o","w","e","d" >>

\* the text is stripped and the call of upper() is forgotten
SqlStripOnly(sql) == Strip(sql)

\* sql_upper = sql.upper().strip()
SqlUpper(sql) == Strip(Upper(sql))

\* the indexes of the patterns of WRITE_PATTERNS that re.search finds in sql_upper
WriteMatches(sql) ==
  LET sql_upper == SqlUpper(sql)
  IN  { k \in DOMAIN WRITE_PATTERNS : WordSearch(sql_upper, WRITE_PATTERNS[k]) }

\* the text is never split at its semicolons
StatementsUnsplit(sql) == IF Strip(sql) = << >> THEN << >> ELSE << Strip(sql) >>

\* statements = [s.strip() for s in sql.split(';') if s.strip()]
Statements(sql) ==
  LET parts == Split(sql, ";")
      RECURSIVE Keep(_)
      Keep(ps) ==
        IF ps = << >> THEN << >>
        ELSE IF Strip(Head(ps)) = << >> THEN Keep(Tail(ps))
             ELSE << Strip(Head(ps)) >> \o Keep(Tail(ps))
  IN  Keep(parts)

\* is_safe_query(sql) of an executor whose read_only flag is ro: (is_safe, error_message)
is_safe_query(sql, ro) ==
  LET hits == WriteMatches(sql)
  IN  IF ro /\ hits # {}
      THEN [ safe |-> FALSE,
             msg  |-> BlockedPrefix \o PatternText(WRITE_PATTERNS[SetMin(hits)]) ]
      ELSE IF Len(Statements(sql)) > 1
      THEN [ safe |-> FALSE, msg |-> MultipleMessage ]
      ELSE [ safe |-> TRUE, msg |-> << >> ]

(***************************************************************************)
(* QueryExecutor.execute: normalisation and result envelopes               *)
(***************************************************************************)
\* sql = sql.strip(); if sql.endswith(';'): sql = sql[:-1]
CleanUpSql(sql) ==
  LET s == Strip(sql)
  IN  IF EndsWith(s, << ";" >>) THEN SubSeq(s, 1, Len(s) - 1) ELSE s

\* a LIMIT is appended to every SELECT, whatever it holds
NeedsLimitEverySelect(sql) == StartsWith(Upper(sql), KwSelect)

\* the condition under which a LIMIT is appended
NeedsLimit(sql) ==
  LET u == Upper(sql)
  IN  StartsWith(u, KwSelect) /\ ~Contains(u, KwLimit)

\* f"{sql} LIMIT {self.max_results}"
WithLimit(sql, maxres) == sql \o << " " >> \o KwLimit \o << " " >> \o IntToText(maxres)

\* the candidate is handed to cursor.execute as it came
PrepareSqlRaw(sql, maxres) == sql

\* lines 105-112: the text handed to cursor.execute
PrepareSql(sql, maxres) ==
  LET s == CleanUpSql(sql)
  IN  IF NeedsLimit(s) THEN WithLimit(s, maxres) ELSE s

QueryResult(su, co, ro, rc, er, sq) ==
  [ success |-> su, columns |-> co, rows |-> ro, row_count |-> rc, error |-> er, sql |-> sq ]

\* the rejection is reported with a fixed text in place of the validator's reason
RejectedResultFixedText(msg, sql) ==
  QueryResult(FALSE, << >>, << >>, 0, Some(<< "u","n","s","a","f","e" >>), Some(sql))

\* the result returned when the validator rejects
RejectedResult(msg, sql) == QueryResult(FALSE, << >>, << >>, 0, Some(msg), Some(sql))

\* cursor.fetchmany(n) on a cursor holding rows: the loop of the sqlite3 module
\* stops when its counter equals n, which never happens for n <= 0
Fetchmany(rows, n) ==
  IF n <= 0 THEN rows ELSE SubSeq(rows, 1, IF Len(rows) < n THEN Len(rows) ELSE n)

\* the result returned after a successful statement
SuccessResult(columns, rows, sql) == QueryResult(TRUE, columns, rows, Len(rows), None, Some(sql))

\* the error text is left out of the result
DbErrorResultNoText(text, sql) == QueryResult(FALSE, << >>, << >>, 0, None, Some(sql))

\* the result returned from the clause except sqlite3.Error
DbErrorResult(text, sql) == QueryResult(FALSE, << >>, << >>, 0, Some(text), Some(sql))

UnexpectedPrefix ==
  << "U","n","e","x","p","e","c","t","e","d"," ","e","r","r","o","r",":"," " >>

\* the result returned from the clause except Exception
UnexpectedResult(text, sql) ==
  QueryResult(FALSE, << >>, << >>, 0, Some(UnexpectedPrefix \o text), Some(sql))

(***************************************************************************)
(* The database behind sqlite3.connect / cursor.execute                    *)
(*                                                                         *)
(* The database holds one table; db records whether the table exists, how  *)
(* many rows it stores (row i is the tuple <<i>>) and whether its          *)
(* definition was altered.  The select list, the table name and the values *)
(* of a statement are abstracted by the token "x", so the engine may       *)
(* refuse any statement with an error of its own.                          *)
(***************************************************************************)
OneStatementText ==
  << "Y","o","u"," ","c","a","n"," ","o","n","l","y"," ","e","x","e","c","u","t","e"," ",
     "o","n","e"," ","s","t","a","t","e","m","e","n","t"," ","a","t"," ","a"," ","t","i","m","e","." >>

UnableToOpenText ==
  << "u","n","a","b","l","e"," ","t","o"," ","o","p","e","n"," ",
     "d","a","t","a","b","a","s","e"," ","f","i","l","e" >>

NoSuchTableText == << "n","o"," ","s","u","c","h"," ","t","a","b","l","e",":"," ","x" >>

SyntaxErrorText == << "s","y","n","t","a","x"," ","e","r","r","o","r" >>

\* the rows a cursor over the table yields
TableRows(n) == [ i \in 1..n |-> << i >> ]

\* the first statement of a text and what follows its semicolon: leading
\* semicolons and blanks are skipped by the SQL parser
FirstStatement(q) ==
  LET start == { i \in 1..Len(q) : q[i] \notin Whitespace \cup { ";" } }
  IN  IF start = {} THEN [ stmt |-> << >>, tail |-> << >> ]
      ELSE LET rest  == SubSeq(q, SetMin(start), Len(q))
               semis == { i \in 1..Len(rest) : rest[i] = ";" }
           IN  IF semis = {} THEN [ stmt |-> rest, tail |-> << >> ]
               ELSE [ stmt |-> SubSeq(rest, 1, SetMin(semis) - 1),
                      tail |-> SubSeq(rest, SetMin(semis) + 1, Len(rest)) ]

\* the leading keyword of a statement, uppercased
FirstWord(stmt) ==
  LET u    == Upper(Strip(stmt))
      stop == { i \in 1..Len(u) : u[i] \notin WordChars }
  IN  IF stop = {} THEN u ELSE SubSeq(u, 1, SetMin(stop) - 1)

\* the LIMIT clause of a statement: absent, a row count, or malformed
LimitClause(stmt) ==
  LET u   == Upper(stmt)
      occ == WordOccurrences(u, KwLimit)
  IN  IF occ = {} THEN [ kind |-> "none", n |-> 0 ]
      ELSE IF Cardinality(occ) > 1 THEN [ kind |-> "malformed", n |-> 0 ]
      ELSE LET after == SubSeq(u, SetMin(occ) + Len(KwLimit), Len(u))
               arg   == Strip(after)
           IN  IF /\ arg # << >>
                  /\ after[1] \in Whitespace
                  /\ \A i \in 1..Len(arg) : arg[i] \in DigitSet
               THEN [ kind |-> "count", n |-> TextToInt(arg) ]
               ELSE [ kind |-> "malformed", n |-> 0 ]

Outcome(k, t, c, n, d, e) ==
  [ kind |-> k, text |-> t, columns |-> c, nrows |-> n, db |-> d, executed |-> e ]

\* an sqlite3.Error raised by the engine; the statement did not run
EngineError(t, d) == Outcome("dberror", t, << >>, 0, d, 0)

\* the characters the SQL tokenizer refuses
Unrecognized == { "#" }

\* what running one statement can do to the database d
StatementOutcomes(stmt, d) ==
  LET w   == FirstWord(stmt)
      lim == LimitClause(stmt)
      err == { EngineError(SyntaxErrorText, d) } \cup
             (IF d.exists THEN {} ELSE { EngineError(NoSuchTableText, d) })
  IN  IF Range(stmt) \cap Unrecognized # {}
      THEN { EngineError(SyntaxErrorText, d) }
      ELSE IF w \in { KwSelect, KwWith }
      THEN err \cup
           (IF d.exists /\ lim.kind # "malformed"
            THEN { Outcome("ok", << >>, << "id" >>,
                           IF lim.kind = "count" /\ lim.n < d.rows THEN lim.n ELSE d.rows,
                           d, 1) }
            ELSE {})
      ELSE IF w = KwDrop
      THEN err \cup
           (IF d.exists
            THEN { Outcome("ok", << >>, << >>, 0,
                           [ exists |-> FALSE, rows |-> 0, altered |-> FALSE ], 1) }
            ELSE {})
      ELSE IF w = KwCreate
      THEN { EngineError(SyntaxErrorText, d) } \cup
           (IF d.exists THEN {}
            ELSE { Outcome("ok", << >>, << >>, 0,
                           [ exists |-> TRUE, rows |-> 0, altered |-> FALSE ], 1) })
      ELSE IF w = KwAlter
      THEN err \cup
           (IF d.exists
            THEN { Outcome("ok", << >>, << >>, 0, [ d EXCEPT !.altered = TRUE ], 1) }
            ELSE {})
      ELSE IF w \in { KwInsert, KwUpdate, KwDelete, KwReplace }
      \* the statement runs in an implicit transaction that execute() never commits:
      \* conn.close() discards its changes
      THEN err \cup (IF d.exists THEN { Outcome("ok", << >>, << >>, 0, d, 1) } ELSE {})
      ELSE { EngineError(SyntaxErrorText, d) }

\* cursor.execute(q) on the database d: every outcome the sqlite3 module can produce.
\* Text after the first statement is refused before anything runs, with
\* sqlite3.Warning (an Exception) up to Python 3.10 and sqlite3.ProgrammingError
\* (an sqlite3.Error) from Python 3.11 on.
EngineOutcomes(q, d) ==
  LET f == FirstStatement(q)
  IN  IF Strip(f.tail) # << >>
      THEN { Outcome("dberror", OneStatementText, << >>, 0, d, 0),
             Outcome("other", OneStatementText, << >>, 0, d, 0) }
      ELSE IF Strip(f.stmt) = << >>
      THEN { Outcome("ok", << >>, << >>, 0, d, 0) }
      ELSE StatementOutcomes(f.stmt, d)

\* sqlite3.connect(self.db_path): the file may have become unreadable
ConnectOutcomes == { "connected", "connfail" }

(***************************************************************************)
(* Candidate statements                                                    *)
(***************************************************************************)
\* the pieces candidates are made of; "x" stands for a select list or a table
Tokens ==
  { << "S","E","L","E","C","T"," ","x" >>,
    << "s","e","l","e","c","t"," ","x" >>,
    << "D","R","O","P"," ","x" >>,
    << " ","L","I","M","I","T"," ","3" >>,
    << "_","l","i","m","i","t" >>,
    << ";" >>,
    << " " >> }

\* every text of at most MaxTokens tokens
TokenTexts ==
  { Concat(ts) : ts \in UNION { [1..n -> Tokens] : n \in 0..MaxTokens } }

\* a keyword written in capitals, in small letters, or capitalised
Cased(kw, c) ==
  IF c = "upper" THEN kw
  ELSE IF c = "lower" THEN Lower(kw)
  ELSE << kw[1] >> \o Lower(Tail(kw))

\* what may stand directly before or after a keyword
Affixes == { << >>, << " " >>, << "x" >>, << "_" >>, << ";" >>, << "(" >> }

\* the keywords that start a statement other than SELECT
LeadingWords == Range(WRITE_PATTERNS) \cup { KwWith }

\* each leading keyword, in each letter case, between two affixes
KeywordTexts ==
  { pre \o Cased(kw, c) \o post :
      kw \in LeadingWords, c \in { "upper", "lower", "capital" },
      pre \in Affixes, post \in Affixes }

\* a keyword inside an identifier that holds a letter beyond ASCII
UnicodeTexts == { << "S","E","L","E","C","T"," ","%","d","r","o","p" >>, << "s","e","l","e","c","t"," ","d","r","o","p","%" >> }

Candidates == TokenTexts \cup KeywordTexts \cup UnicodeTexts

\* the values of max_results the executors are built with
MaxResultsValues == { 2, 10 }

(***************************************************************************)
(* State                                                                   *)
(***************************************************************************)
VARIABLES
  read_only,     \* QueryExecutor.read_only
  max_results,   \* QueryExecutor.max_results
  db,            \* the database file: [exists, rows, altered]
  conns,         \* the number of connections execute() opened that are still open
  calls,         \* the number of execute() calls made on the executor by its callers
  ret,           \* how the last execute() call ended: [kind, value]
  call,          \* what the last execute() call did, with the verdict it got at line 94
  max_retries,   \* process_query: the retry budget
  sql_only,      \* process_query: the sql_only flag
  pc,            \* process_query: "idle", "generate", "execute" or "done"
  attempt,       \* process_query: the loop variable
  error_context, \* process_query: the error context carried to the next prompt
  prompt,        \* the error context placed in the last prompt built
  raw,           \* process_query: response.content of the last generation call
  sql,           \* process_query: the cleaned candidate of the current attempt
  returned,      \* the value process_query returned
  surfaced,      \* the failure reason of the final "failed after" message
  tally,         \* calls made for the question: [gen, exec, execfail, genfail]
  asked,         \* how many questions were passed to process_query
  previous,      \* interactive_mode: how the question before the current one ended
  kdir,          \* the knowledge directory on disk: [exists, files], files in glob order
  cache,         \* KnowledgeLoader._cache: filename -> text
  kret,          \* the last call made on the loader itself: [op, arg, value]
  changes,       \* how many times the knowledge directory was changed from outside
  catalog,       \* the tables of the database given to SchemaExtractor, as created
  schema,        \* the Schema the last extract() returned
  schema_text    \* what to_prompt_string() returned for that Schema

execVars == << read_only, max_results, db, conns, calls, ret, call >>

queryVars ==
  << max_retries, sql_only, pc, attempt, error_context, prompt, raw, sql, returned,
     surfaced, tally, asked, previous >>

knowVars == << kdir, cache, kret, changes >>

schemaVars == << catalog, schema, schema_text >>

vars == << execVars, queryVars, knowVars, schemaVars >>

EmptyResult == QueryResult(FALSE, << >>, << >>, 0, None, None)

NoReturn == [ kind |-> "none", value |-> EmptyResult ]

Returned(r) == [ kind |-> "result", value |-> r ]

\* the exception left execute()
Raised == [ kind |-> "raised", value |-> EmptyResult ]

\* no verdict of the validator is held
NoVerdict == [ safe |-> TRUE, msg |-> << >> ]

NoCall ==
  [ arg |-> << >>, submitted |-> << >>, executed |-> 0, connected |-> FALSE,
    closed |-> FALSE, outcome |-> "none", enginetext |-> << >>, dbBefore |-> db,
    verdict |-> NoVerdict ]

InitialDb == [ exists |-> TRUE, rows |-> MaxRows, altered |-> FALSE ]

ExecInit ==
  /\ read_only \in BOOLEAN
  /\ max_results \in MaxResultsValues
  /\ db = InitialDb
  /\ conns = 0
  /\ calls = 0
  /\ ret = NoReturn
  /\ call = [ arg |-> << >>, submitted |-> << >>, executed |-> 0, connected |-> FALSE,
              closed |-> FALSE, outcome |-> "none", enginetext |-> << >>,
              dbBefore |-> InitialDb, verdict |-> NoVerdict ]

(***************************************************************************)
(* QueryExecutor.execute                                                   *)
(***************************************************************************)
\* the clause except Exception is missing
HandlerDbOnly(kind) == IF kind = "dberror" THEN "sqlite3.Error" ELSE "none"

\* the except clause that catches an exception of the given kind
Handler(kind) ==
  IF kind = "dberror" THEN "sqlite3.Error"
  ELSE IF kind = "other" THEN "Exception"
  ELSE "none"

\* the value execute returns from an except clause
HandledReturn(kind, text, q) ==
  IF Handler(kind) = "sqlite3.Error" THEN Returned(DbErrorResult(text, q))
  ELSE IF Handler(kind) = "Exception" THEN Returned(UnexpectedResult(text, q))
  ELSE Raised

\* conn.close() is reached on the path that ends with the given outcome
ClosesConnection(kind) == kind = "ok"

\* the verdict of the validator is ignored
GoesAlways(text, ro) == TRUE

\* the validator's verdict decides whether execute goes on to the database
GoesToDatabase(text, ro) == is_safe_query(text, ro).safe

\* execute(sql), from the validation to the return
ExecuteCall(text) ==
  LET v == is_safe_query(text, read_only)
      q == PrepareSql(text, max_results)
  IN  /\ UNCHANGED << read_only, max_results >>
      /\ IF ~GoesToDatabase(text, read_only)
         THEN /\ ret' = Returned(RejectedResult(v.msg, text))
              /\ call' = [ arg |-> text, submitted |-> << >>, executed |-> 0,
                           connected |-> FALSE, closed |-> FALSE, outcome |-> "rejected",
                           enginetext |-> << >>, dbBefore |-> db, verdict |-> v ]
              /\ UNCHANGED << db, conns >>
         ELSE \E c \in ConnectOutcomes :
                IF c = "connfail"
                THEN /\ ret' = HandledReturn("dberror", UnableToOpenText, q)
                     /\ call' = [ arg |-> text, submitted |-> << >>, executed |-> 0,
                                  connected |-> FALSE, closed |-> FALSE,
                                  outcome |-> "connfail",
                                  enginetext |-> UnableToOpenText, dbBefore |-> db,
                                  verdict |-> v ]
                     /\ UNCHANGED << db, conns >>
                ELSE \E o \in EngineOutcomes(q, db) :
                     /\ ret' = IF o.kind = "ok"
                               THEN Returned(SuccessResult(o.columns,
                                               Fetchmany(TableRows(o.nrows), max_results), q))
                               ELSE HandledReturn(o.kind, o.text, q)
                     /\ db' = o.db
                     /\ conns' = IF ClosesConnection(o.kind) THEN conns ELSE conns + 1
                     /\ call' = [ arg |-> text, submitted |-> << q >>, executed |-> o.executed,
                                  connected |-> TRUE, closed |-> ClosesConnection(o.kind),
                                  outcome |-> o.kind, enginetext |-> o.text,
                                  dbBefore |-> db, verdict |-> v ]

\* a caller passes a candidate to execute()
Execute ==
  /\ ret.kind = "none"
  /\ calls < MaxCalls
  /\ calls' = calls + 1
  /\ \E c \in Candidates : ExecuteCall(c)
  /\ UNCHANGED queryVars
  /\ UNCHANGED knowVars
  /\ UNCHANGED schemaVars

\* the caller has read the result and drops it
Consume ==
  /\ ret.kind # "none"
  /\ ret' = NoReturn
  /\ call' = [ NoCall EXCEPT !.dbBefore = db ]
  /\ UNCHANGED << read_only, max_results, db, conns, calls >>
  /\ UNCHANGED queryVars
  /\ UNCHANGED knowVars
  /\ UNCHANGED schemaVars

\* the interpreter finalizes a connection object that execute() left unclosed: at
\* once where objects are reference counted, later or never under a tracing collector
Finalize ==
  /\ conns > 0
  /\ conns' = conns - 1
  /\ UNCHANGED << read_only, max_results, db, calls, ret, call >>
  /\ UNCHANGED queryVars
  /\ UNCHANGED knowVars
  /\ UNCHANGED schemaVars

(***************************************************************************)
(* KnowledgeLoader                                                         *)
(***************************************************************************)
\* the stop words of extract_keywords
stop_words ==
  { << "t","h","e" >>,
    << "a" >>,
    << "a","n" >>,
    << "a","n","d" >>,
    << "o","r" >>,
    << "b","u","t" >>,
    << "i","s" >>,
    << "a","r","e" >>,
    << "w","a","s" >>,
    << "w","e","r","e" >>,
    << "b","e" >>,
    << "b","e","e","n" >>,
    << "b","e","i","n","g" >>,
    << "h","a","v","e" >>,
    << "h","a","s" >>,
    << "h","a","d" >>,
    << "d","o" >>,
    << "d","o","e","s" >>,
    << "d","i","d" >>,
    << "w","i","l","l" >>,
    << "w","o","u","l","d" >>,
    << "c","o","u","l","d" >>,
    << "s","h","o","u","l","d" >>,
    << "m","a","y" >>,
    << "m","i","g","h","t" >>,
    << "c","a","n" >>,
    << "t","o" >>,
    << "o","f" >>,
    << "i","n" >>,
    << "f","o","r" >>,
    << "o","n" >>,
    << "w","i","t","h" >>,
    << "a","t" >>,
    << "b","y" >>,
    << "f","r","o","m" >>,
    << "a","s" >>,
    << "i","n","t","o" >>,
    << "t","h","r","o","u","g","h" >>,
    << "d","u","r","i","n","g" >>,
    << "b","e","f","o","r","e" >>,
    << "a","f","t","e","r" >>,
    << "a","b","o","v","e" >>,
    << "b","e","l","o","w" >>,
    << "b","e","t","w","e","e","n" >>,
    << "u","n","d","e","r" >>,
    << "a","g","a","i","n" >>,
    << "f","u","r","t","h","e","r" >>,
    << "t","h","e","n" >>,
    << "o","n","c","e" >>,
    << "a","l","l" >>,
    << "e","a","c","h" >>,
    << "f","e","w" >>,
    << "m","o","r","e" >>,
    << "m","o","s","t" >>,
    << "o","t","h","e","r" >>,
    << "s","o","m","e" >>,
    << "s","u","c","h" >>,
    << "n","o" >>,
    << "n","o","r" >>,
    << "n","o","t" >>,
    << "o","n","l","y" >>,
    << "o","w","n" >>,
    << "s","a","m","e" >>,
    << "s","o" >>,
    << "t","h","a","n" >>,
    << "t","o","o" >>,
    << "v","e","r","y" >>,
    << "j","u","s","t" >>,
    << "w","h","a","t" >>,
    << "w","h","i","c","h" >>,
    << "w","h","o" >>,
    << "w","h","o","m" >>,
    << "t","h","i","s" >>,
    << "t","h","a","t" >>,
    << "t","h","e","s","e" >>,
    << "t","h","o","s","e" >>,
    << "a","m" >>,
    << "s","h","o","w" >>,
    << "m","e" >>,
    << "l","i","s","t" >>,
    << "g","e","t" >>,
    << "f","i","n","d" >>,
    << "g","i","v","e" >>,
    << "t","e","l","l" >>,
    << "h","o","w" >>,
    << "m","a","n","y" >>,
    << "m","u","c","h" >>,
    << "w","h","e","n" >>,
    << "w","h","e","r","e" >>,
    << "w","h","y" >>,
    << "t","o","t","a","l" >>,
    << "c","o","u","n","t" >>,
    << "s","u","m" >>,
    << "a","v","e","r","a","g","e" >>,
    << "a","v","g" >>,
    << "m","a","x" >>,
    << "m","i","n" >> }

\* kw in text, for str operands
In(kw, text) == kw = << >> \/ Contains(text, kw)

MdSuffix == << ".","m","d" >>

JoinsFile == << "_","j","o","i","n","s",".","m","d" >>

\* Path.stem of a name that glob("*.md") listed
Stem(filename) == SubSeq(filename, 1, Len(filename) - Len(MdSuffix))

\* the name is a file of the knowledge directory
FileExists(d, filename) ==
  d.exists /\ \E i \in 1..Len(d.files) : d.files[i].name = filename

\* what reading the file gives
FileContent(d, filename) ==
  LET i == CHOOSE i \in 1..Len(d.files) : d.files[i].name = filename
  IN  d.files[i].content

\* KnowledgeLoader.exists
exists(d) == d.exists

\* KnowledgeLoader.list_files: the names, in the order glob enumerates them
list_files(d) ==
  IF ~exists(d) THEN << >>
  ELSE LET names == [ i \in 1..Len(d.files) |-> d.files[i].name ]
       IN  SelectSeq(names, LAMBDA n : EndsWith(n, MdSuffix) /\ Len(n) > Len(MdSuffix))

\* KnowledgeLoader.load_file: the value returned and the cache it leaves
load_file(d, c, filename) ==
  IF ~FileExists(d, filename) THEN [ value |-> None, cache |-> c ]
  ELSE LET c2 == IF filename \notin DOMAIN c
                 THEN c @@ (filename :> FileContent(d, filename))
                 ELSE c
       IN  [ value |-> Some(c2[filename]), cache |-> c2 ]

\* the truth value of an Optional[str]
Truthy(content) == content.some /\ content.text # << >>

\* KnowledgeLoader.load_all: the dict returned and the cache it leaves
RECURSIVE LoadAllLoop(_, _, _, _)
LoadAllLoop(d, c, files, result) ==
  IF files = << >> THEN [ value |-> result, cache |-> c ]
  ELSE LET r == load_file(d, c, Head(files))
       IN  LoadAllLoop(d, r.cache, Tail(files),
                       IF Truthy(r.value) THEN result @@ (Head(files) :> r.value.text)
                       ELSE result)

load_all(d, c) == LoadAllLoop(d, c, list_files(d), << >>)

\* re.findall(r'\b[a-z]+\b', s): the runs of small letters with a word boundary at
\* both ends
WordBoundaryRuns(s) ==
  LET Boundary(i) ==
        (i >= 1 /\ i <= Len(s) /\ s[i] \in WordChars)
          # (i - 1 >= 1 /\ i - 1 <= Len(s) /\ s[i - 1] \in WordChars)
  IN  { SubSeq(s, i, j) : <<i, j>> \in
          { p \in (1..Len(s)) \X (1..Len(s)) :
              /\ p[1] <= p[2]
              /\ \A k \in p[1]..p[2] : s[k] \in LowerSet
              /\ Boundary(p[1])
              /\ Boundary(p[2] + 1) } }

\* KnowledgeLoader.extract_keywords
extract_keywords(text) ==
  { w \in WordBoundaryRuns(Lower(text)) : w \notin stop_words /\ Len(w) > 2 }

\* lines 99-101: the keywords of the question and the lowercased table names
QueryKeywords(query, table_names) ==
  extract_keywords(query) \cup
    (IF table_names # << >> THEN { Lower(table_names[i]) : i \in 1..Len(table_names) }
     ELSE {})

\* line 110 with its first test only: the stem is a keyword
StemEqualsKeyword(filename, query_keywords) == Lower(Stem(filename)) \in query_keywords

\* line 110: the stem is a keyword or holds one
StemMatch(filename, query_keywords) ==
  LET file_stem == Lower(Stem(filename))
  IN  file_stem \in query_keywords \/ \E kw \in query_keywords : In(kw, file_stem)

\* lines 105-121 of find_relevant_files: the loop over the listed files
RECURSIVE RelevantLoop(_, _, _, _, _)
RelevantLoop(d, c, files, query_keywords, relevant) ==
  IF files = << >> THEN [ value |-> relevant, cache |-> c ]
  ELSE LET filename == Head(files)
       IN  IF StemMatch(filename, query_keywords)
           THEN RelevantLoop(d, c, Tail(files), query_keywords, Append(relevant, filename))
           ELSE LET r == load_file(d, c, filename)
                    matches == IF Truthy(r.value)
                               THEN Cardinality({ kw \in query_keywords :
                                                    In(kw, Lower(r.value.text)) })
                               ELSE 0
                IN  RelevantLoop(d, r.cache, Tail(files), query_keywords,
                                 IF matches >= 2 THEN Append(relevant, filename)
                                 ELSE relevant)

\* find_relevant_files without lines 119-121, which add _joins.md
find_relevant_files_loop_only(d, c, query, table_names) ==
  IF ~exists(d) THEN [ value |-> << >>, cache |-> c ]
  ELSE RelevantLoop(d, c, list_files(d), QueryKeywords(query, table_names), << >>)

\* KnowledgeLoader.find_relevant_files: the list returned and the cache it leaves
find_relevant_files(d, c, query, table_names) ==
  IF ~exists(d) THEN [ value |-> << >>, cache |-> c ]
  ELSE LET r == RelevantLoop(d, c, list_files(d), QueryKeywords(query, table_names),
                             << >>)
       IN  IF JoinsFile \in Range(list_files(d)) /\ JoinsFile \notin Range(r.value)
           THEN [ r EXCEPT !.value = Append(@, JoinsFile) ]
           ELSE r

Banner == << "D","O","M","A","I","N"," ","K","N","O","W","L","E","D","G","E",":" >>

HeadingMark == << "#","#","#"," " >>

\* lines 143-148 of get_context: the sections appended for the selected files
RECURSIVE SectionLoop(_, _, _, _)
SectionLoop(d, c, files, sections) ==
  IF files = << >> THEN [ value |-> sections, cache |-> c ]
  ELSE LET r == load_file(d, c, Head(files))
       IN  SectionLoop(d, r.cache, Tail(files),
                       IF Truthy(r.value)
                       THEN sections \o
                              << HeadingMark \o Head(files), Strip(r.value.text), << >> >>
                       ELSE sections)

\* KnowledgeLoader.get_context: the text returned and the cache it leaves
get_context(d, c, query, table_names) ==
  LET relevant_files == find_relevant_files(d, c, query, table_names)
  IN  IF relevant_files.value = << >> THEN [ value |-> << >>, cache |-> relevant_files.cache ]
      ELSE LET r == SectionLoop(d, relevant_files.cache, relevant_files.value,
                                << Banner, << >> >>)
           IN  [ value |-> Join(r.value, "\n"), cache |-> r.cache ]

\* the largest number of files the knowledge directory holds
MaxFiles == 2

\* the largest number of changes made to the knowledge directory from outside
MaxChanges == 1

\* the file names of the knowledge directory
FileNames == { JoinsFile, << "A","b","c","d",".","m","d" >>, << "n",".","m","d" >> }

\* the texts the files hold
Contents == { << >>, << "a","b","c" >>, << "A","b","c"," ","D","E","F" >> }

\* the questions asked
Questions == { << "a","b","c","d" >>, << "a","b","c" >>, << "S","h","o","w"," ","t","h","e"," ","x","y","z" >> }

\* the table-name lists passed with a question
TableLists == { << >>, << << "D","E","F" >> >> }

\* the texts extract_keywords is called with
ExtractTexts == Questions \cup { << "u","s","e","r","_","i","d"," ","a","b","c","1","2","3" >>, << "x","-","r","a","y"," ","o","f","_","t","h","e"," ","d","a","y" >> }

\* the listings of at most k files with different names
RECURSIVE Listings(_)
Listings(k) ==
  IF k = 0 THEN { << >> }
  ELSE LET shorter == Listings(k - 1)
       IN  shorter \cup
             { Append(l, [ name |-> n, content |-> t ]) :
                 <<l, n, t>> \in
                   { x \in shorter \X FileNames \X Contents :
                       /\ Len(x[1]) = k - 1
                       /\ \A i \in 1..Len(x[1]) : x[1][i].name # x[2] } }

NoDirectory == [ exists |-> FALSE, files |-> << >> ]

\* the knowledge directories a loader is constructed on
Directories ==
  { NoDirectory } \cup { [ exists |-> TRUE, files |-> l ] : l \in Listings(MaxFiles) }

\* the arguments of a call: the fields the method does not take stay empty
NoArg == [ name |-> << >>, query |-> << >>, table_names |-> << >>, text |-> << >> ]

\* what a call returned: content for load_file, files for load_all, names for
\* find_relevant_files, text for get_context, words for extract_keywords
NoValue ==
  [ content |-> None, files |-> << >>, names |-> << >>, text |-> << >>, words |-> {} ]

KnowledgeCall(op, arg, value) == [ op |-> op, arg |-> arg, value |-> value ]

NoKnowledgeCall == KnowledgeCall("none", NoArg, NoValue)

\* KnowledgeLoader.__init__ on a directory nobody has touched
KnowledgeNew ==
  /\ cache = << >>
  /\ kret = NoKnowledgeCall
  /\ changes = 0

\* load_file(filename) is called
LoadFile ==
  /\ \E filename \in FileNames :
       LET r == load_file(kdir, cache, filename)
       IN  /\ cache' = r.cache
           /\ kret' = KnowledgeCall("load_file", [ NoArg EXCEPT !.name = filename ],
                                    [ NoValue EXCEPT !.content = r.value ])
  /\ UNCHANGED << kdir, changes >>
  /\ UNCHANGED << execVars, queryVars, schemaVars >>

\* load_all() is called
LoadAll ==
  /\ LET r == load_all(kdir, cache)
     IN  /\ cache' = r.cache
         /\ kret' = KnowledgeCall("load_all", NoArg, [ NoValue EXCEPT !.files = r.value ])
  /\ UNCHANGED << kdir, changes >>
  /\ UNCHANGED << execVars, queryVars, schemaVars >>

\* find_relevant_files(query, table_names) is called
FindRelevantFiles ==
  /\ \E query \in Questions, table_names \in TableLists :
       LET r == find_relevant_files(kdir, cache, query, table_names)
       IN  /\ cache' = r.cache
           /\ kret' = KnowledgeCall("find_relevant_files",
                                    [ NoArg EXCEPT !.query = query,
                                                   !.table_names = table_names ],
                                    [ NoValue EXCEPT !.names = r.value ])
  /\ UNCHANGED << kdir, changes >>
  /\ UNCHANGED << execVars, queryVars, schemaVars >>

\* get_context(query, table_names) is called
GetContext ==
  /\ \E query \in Questions, table_names \in TableLists :
       LET r == get_context(kdir, cache, query, table_names)
       IN  /\ cache' = r.cache
           /\ kret' = KnowledgeCall("get_context",
                                    [ NoArg EXCEPT !.query = query,
                                                   !.table_names = table_names ],
                                    [ NoValue EXCEPT !.text = r.value ])
  /\ UNCHANGED << kdir, changes >>
  /\ UNCHANGED << execVars, queryVars, schemaVars >>

\* extract_keywords(text) is called
ExtractKeywords ==
  /\ \E text \in ExtractTexts :
       kret' = KnowledgeCall("extract_keywords", [ NoArg EXCEPT !.text = text ],
                             [ NoValue EXCEPT !.words = extract_keywords(text) ])
  /\ UNCHANGED << kdir, cache, changes >>
  /\ UNCHANGED << execVars, queryVars, schemaVars >>

\* somebody outside the process writes a file of the knowledge directory: a new
\* file is listed last, a rewritten one keeps its place
WriteFile ==
  /\ kdir.exists
  /\ changes < MaxChanges
  /\ \E filename \in FileNames, content \in Contents :
       IF FileExists(kdir, filename)
       THEN /\ FileContent(kdir, filename) # content
            /\ kdir' = [ kdir EXCEPT !.files =
                           [ i \in 1..Len(@) |->
                               IF @[i].name = filename
                               THEN [ name |-> filename, content |-> content ]
                               ELSE @[i] ] ]
       ELSE /\ Len(kdir.files) < MaxFiles
            /\ kdir' = [ kdir EXCEPT !.files =
                           Append(@, [ name |-> filename, content |-> content ]) ]
  /\ changes' = changes + 1
  /\ UNCHANGED << cache, kret >>
  /\ UNCHANGED << execVars, queryVars, schemaVars >>

\* somebody outside the process deletes a file of the knowledge directory
DeleteFile ==
  /\ changes < MaxChanges
  /\ \E filename \in FileNames :
       /\ FileExists(kdir, filename)
       /\ kdir' = [ kdir EXCEPT !.files = SelectSeq(@, LAMBDA f : f.name # filename) ]
  /\ changes' = changes + 1
  /\ UNCHANGED << cache, kret >>
  /\ UNCHANGED << execVars, queryVars, schemaVars >>

(***************************************************************************)
(* process_query: the retry loop                                           *)
(***************************************************************************)
\* the largest retry budget process_query is run with
MaxRetries == 3

\* the fence marker of three backquotes; a backquote cannot be written in a
\* string of this language, and "#" stands for it
Fence == << "#","#","#" >>

\* lines 177-183: the candidate cut out of the response of the backend
CleanResponse(content) ==
  LET s == Strip(content)
  IN  IF StartsWith(s, Fence)
      THEN LET lines == Split(s, "\n")
               body  == IF Strip(lines[Len(lines)]) = Fence
                        THEN SubSeq(lines, 2, Len(lines) - 1)
                        ELSE SubSeq(lines, 2, Len(lines))
           IN  Strip(Join(body, "\n"))
      ELSE s

\* the failed statement is left out of the context
build_error_context_error_only(q, error) == << "E","r","r","o","r",":"," " >> \o error

\* PromptBuilder.build_error_context(sql, error)
build_error_context(q, error) ==
  << "S","Q","L",":"," " >> \o q \o << "\n" >> \o << "E","r","r","o","r",":"," " >> \o error

\* the description of the exception is left out of the context
ExceptionContextBare(text) == << "E","r","r","o","r" >>

\* error_context = f"Error: {str(e)}"
ExceptionContext(text) == << "E","r","r","o","r",":"," " >> \o text

\* build_query_prompt: the "PREVIOUS ATTEMPT FAILED" block is added if error_context is truthy
PromptErrorBlock(ec) == IF ec.some /\ ec.text # << >> THEN Some(ec.text) ELSE None

\* attempt < max_retries
CanRetryOnceMore(a, budget) == a < budget

\* attempt < max_retries - 1
CanRetry(a, budget) == a < budget - 1

\* the loop makes a pass for a = budget as well
LoopNextInclusive(a, budget) == IF a + 1 <= budget THEN "generate" ELSE "done"

\* the candidate is passed to the executor whatever the flag says
SkipsExecutorNever(flag) == FALSE

\* lines 193-194: if sql_only: return sql
SkipsExecutor(flag) == flag

\* for attempt in range(max_retries): where control goes after the pass numbered a;
\* "done" is the return None that follows the loop
LoopNext(a, budget) == IF a + 1 < budget THEN "generate" ELSE "done"

\* the reason printed by the "failed after N attempts" message
FailureReason(error, ec) == error

\* the statements the backend answers with
Bodies ==
  { << "S","E","L","E","C","T"," ","x" >>,
    << "S","E","L","E","C","T"," ","x"," ","L","I","M","I","T"," ","1" >>,
    << "S","E","L","E","C","T"," ","x",";","D","R","O","P"," ","x" >>,
    << "D","R","O","P"," ","x" >>,
    << "d","e","l","e","t","e"," ","x",";" >>,
    << >> }

\* the statements the backend wraps in a fenced block
FencedBodies == { << "S","E","L","E","C","T"," ","x" >>, << "D","R","O","P"," ","x" >> }

\* how a fenced block ends: a fence on a line of its own, a fence on the
\* last line of the statement, no fence
Closers == { << "\n" >> \o Fence, Fence, << >> }

\* what the backend can answer
RawOutputs ==
  Bodies
  \cup { Fence \o << "s","q","l","\n" >> \o b \o c : b \in FencedBodies, c \in Closers }
  \cup { << " " >> \o b \o << "\n" >> : b \in FencedBodies }

\* the descriptions of the exceptions llm.generate raises
BackendErrors == { << "t","i","m","e","d"," ","o","u","t" >> }

\* rendering the rows of a successful result may raise inside the try block
DisplayOutcomes == { "shown", "display_error" }

DisplayErrorText == << "m","a","r","k","u","p" >>

NoTally == [ gen |-> 0, exec |-> 0, execfail |-> 0, genfail |-> 0 ]

\* the largest number of questions typed in one interactive session
MaxQuestions == 2

\* no question came before the current one
NoOutcome == [ some |-> FALSE, success |-> FALSE, attempt |-> 0, had_error |-> FALSE ]

\* how the call of process_query that has just come back ended: whether it returned
\* a statement, and what its locals attempt and error_context held
QuestionOutcome ==
  [ some |-> TRUE, success |-> returned.some, attempt |-> attempt,
    had_error |-> error_context.some ]

\* the error context of the question before is kept
StaleErrorContext == error_context

\* line 164: error_context = None
FreshErrorContext == None

QueryIdle ==
  /\ pc = "idle"
  /\ attempt = 0
  /\ error_context = None
  /\ prompt = None
  /\ raw = << >>
  /\ sql = << >>
  /\ returned = None
  /\ surfaced = None
  /\ tally = NoTally
  /\ asked = 0
  /\ previous = NoOutcome

\* process_query is entered: lines 157-166
EnterProcessQuery ==
  /\ error_context' = FreshErrorContext
  /\ attempt' = 0
  /\ prompt' = None
  /\ raw' = << >>
  /\ sql' = << >>
  /\ returned' = None
  /\ surfaced' = None
  /\ tally' = NoTally
  /\ ret' = NoReturn
  /\ call' = [ NoCall EXCEPT !.dbBefore = db ]
  /\ pc' = LoopNext(-1, max_retries)
  /\ \E question \in Questions, table_names \in TableLists :
       cache' = get_context(kdir, cache, question, table_names).cache
  /\ UNCHANGED << kdir, kret, changes >>
  /\ UNCHANGED schemaVars
  /\ UNCHANGED << read_only, max_results, db, conns, calls, max_retries, sql_only >>

\* the first question is read and passed to process_query
PQStart ==
  /\ pc = "idle"
  /\ EnterProcessQuery
  /\ asked' = asked + 1
  /\ previous' = previous

\* what is typed at the prompt of interactive_mode
InputLines == { << "q" >>, << "Q","u","i","t" >>, << " " >> } \cup Questions

\* question.lower() in ("exit", "quit", "q")
IsExitWord(line) ==
  Lower(line) \in { << "e","x","i","t" >>, << "q","u","i","t" >>, << "q" >> }

\* interactive_mode, lines 241-265: process_query has come back, the next line is
\* read and, unless it is an exit word or blank, passed to process_query
NextQuestion ==
  /\ pc = "done"
  /\ asked < MaxQuestions
  /\ \E line \in InputLines :
       IF IsExitWord(line)
       THEN /\ pc' = "exited"
            /\ UNCHANGED << execVars, knowVars, schemaVars >>
            /\ UNCHANGED << max_retries, sql_only, attempt, error_context, prompt, raw,
                            sql, returned, surfaced, tally, asked, previous >>
       ELSE IF Strip(line) = << >>
       THEN UNCHANGED vars
       ELSE /\ EnterProcessQuery
            /\ asked' = asked + 1
            /\ previous' = QuestionOutcome

\* interactive_mode, lines 266-268: Ctrl-C while a question is being answered
\* leaves the loop
Interrupt ==
  /\ pc \in { "generate", "execute" }
  /\ pc' = "exited"
  /\ UNCHANGED << execVars, knowVars, schemaVars >>
  /\ UNCHANGED << max_retries, sql_only, attempt, error_context, prompt, raw,
                  sql, returned, surfaced, tally, asked, previous >>

\* the except clause of the loop, lines 219-226, for an exception described by text
PQHandle(text) ==
  IF CanRetry(attempt, max_retries)
  THEN /\ error_context' = Some(ExceptionContext(text))
       /\ attempt' = attempt + 1
       /\ pc' = LoopNext(attempt, max_retries)
       /\ UNCHANGED << returned, surfaced >>
  ELSE /\ surfaced' = Some(text)
       /\ returned' = None
       /\ pc' = "done"
       /\ UNCHANGED << error_context, attempt >>

\* one pass through lines 167-191: the prompt is built, the backend is called and
\* its response is cleaned
PQGenerate ==
  /\ pc = "generate"
  /\ prompt' = PromptErrorBlock(error_context)
  /\ ret' = NoReturn
  /\ call' = [ NoCall EXCEPT !.dbBefore = db ]
  /\ UNCHANGED << read_only, max_results, db, conns, calls, max_retries, sql_only >>
  /\ UNCHANGED << asked, previous >>
  /\ UNCHANGED knowVars
  /\ UNCHANGED schemaVars
  /\ \/ \E e \in BackendErrors :
          /\ tally' = [ tally EXCEPT !.gen = @ + 1, !.genfail = @ + 1 ]
          /\ raw' = raw
          /\ sql' = sql
          /\ PQHandle(e)
     \/ \E content \in RawOutputs :
          /\ tally' = [ tally EXCEPT !.gen = @ + 1 ]
          /\ raw' = content
          /\ sql' = CleanResponse(content)
          /\ IF SkipsExecutor(sql_only)
             THEN /\ returned' = Some(sql')
                  /\ pc' = "done"
                  /\ UNCHANGED << error_context, attempt, surfaced >>
             ELSE /\ pc' = "execute"
                  /\ UNCHANGED << error_context, attempt, returned, surfaced >>

\* lines 193-217: the candidate is executed and the result decides what follows
PQExecute ==
  /\ pc = "execute"
  /\ ExecuteCall(sql)
  /\ UNCHANGED << calls, max_retries, sql_only, prompt, raw, sql, asked, previous >>
  /\ UNCHANGED knowVars
  /\ UNCHANGED schemaVars
  /\ IF ret'.kind = "raised"
     THEN /\ tally' = [ tally EXCEPT !.exec = @ + 1 ]
          /\ PQHandle(<< >>)
     ELSE IF ret'.value.success
     THEN /\ tally' = [ tally EXCEPT !.exec = @ + 1 ]
          /\ \E d \in DisplayOutcomes :
               IF d = "shown"
               THEN /\ returned' = Some(sql)
                    /\ pc' = "done"
                    /\ UNCHANGED << error_context, attempt, surfaced >>
               ELSE PQHandle(DisplayErrorText)
     ELSE /\ tally' = [ tally EXCEPT !.exec = @ + 1, !.execfail = @ + 1 ]
          /\ IF CanRetry(attempt, max_retries)
             THEN /\ error_context' = Some(build_error_context(sql, ret'.value.error.text))
                  /\ attempt' = attempt + 1
                  /\ pc' = LoopNext(attempt, max_retries)
                  /\ UNCHANGED << returned, surfaced >>
             ELSE /\ surfaced' = Some(FailureReason(ret'.value.error.text, error_context))
                  /\ returned' = None
                  /\ pc' = "done"
                  /\ UNCHANGED << error_context, attempt >>

(***************************************************************************)
(* SchemaExtractor and Schema.to_prompt_string                             *)
(***************************************************************************)
\* the largest number of columns of a table
MaxColumns == 2

\* the characters of names, in the order of their codes
CodeOrder ==
  << "\n", " ", "(", ")" >> \o Digits \o UpperLetters \o << "_" >> \o LowerLetters

Code(ch) == CHOOSE i \in 1..Len(CodeOrder) : CodeOrder[i] = ch

\* a < b in the order sqlite sorts names by (ORDER BY name, binary collation)
RECURSIVE TextLess(_, _)
TextLess(a, b) ==
  IF b = << >> THEN FALSE
  ELSE IF a = << >> THEN TRUE
  ELSE IF Head(a) # Head(b) THEN Code(Head(a)) < Code(Head(b))
  ELSE TextLess(Tail(a), Tail(b))

\* the names in ascending order
RECURSIVE Sorted(_)
Sorted(names) ==
  IF names = {} THEN << >>
  ELSE LET least == CHOOSE n \in names : \A m \in names \ { n } : TextLess(n, m)
       IN  << least >> \o Sorted(names \ { least })

\* lines 102-106: the names of sqlite_master, ordered by name
table_names_of(cat) == Sorted({ cat[i].name : i \in 1..Len(cat) })

\* the table of the database with that name
TableNamed(cat, table_name) ==
  cat[CHOOSE i \in 1..Len(cat) : cat[i].name = table_name]

DefaultType == << "T","E","X","T" >>

\* dataclass Column
Column(name, data_type, is_primary_key, is_nullable) ==
  [ name |-> name, data_type |-> data_type, is_primary_key |-> is_primary_key,
    is_nullable |-> is_nullable ]

\* dataclass ForeignKey
ForeignKey(from_table, from_column, to_table, to_column) ==
  [ from_table |-> from_table, from_column |-> from_column, to_table |-> to_table,
    to_column |-> to_column ]

\* dataclass Table
Table(name, columns, primary_keys, foreign_keys) ==
  [ name |-> name, columns |-> columns, primary_keys |-> primary_keys,
    foreign_keys |-> foreign_keys ]

\* SchemaExtractor._extract_columns: one Column for each row of PRAGMA table_info
extract_columns(cat, table_name) ==
  LET rows == TableNamed(cat, table_name).info
  IN  [ i \in 1..Len(rows) |->
          Column(rows[i].name,
                 IF rows[i].type # << >> THEN rows[i].type ELSE DefaultType,
                 rows[i].pk # 0,
                 rows[i].notnull = 0) ]

\* SchemaExtractor._extract_foreign_keys: one ForeignKey for each row of
\* PRAGMA foreign_key_list
extract_foreign_keys(cat, table_name) ==
  LET rows == TableNamed(cat, table_name).fk_list
  IN  [ i \in 1..Len(rows) |->
          ForeignKey(table_name, rows[i].from, rows[i].table, rows[i].to) ]

\* SchemaExtractor._extract_tables
extract_tables(cat) ==
  LET table_names == table_names_of(cat)
  IN  [ i \in 1..Len(table_names) |->
          LET columns == extract_columns(cat, table_names[i])
          IN  Table(table_names[i], columns,
                    [ k \in 1..Len(SelectSeq(columns, LAMBDA c : c.is_primary_key)) |->
                        SelectSeq(columns, LAMBDA c : c.is_primary_key)[k].name ],
                    extract_foreign_keys(cat, table_names[i])) ]

\* dataclass Schema; extracted tells an extracted Schema from none
SchemaOf(tables, foreign_keys) ==
  [ extracted |-> TRUE, tables |-> tables, foreign_keys |-> foreign_keys ]

NoSchema == [ extracted |-> FALSE, tables |-> << >>, foreign_keys |-> << >> ]

\* SchemaExtractor.extract
extract(cat) ==
  LET tables == extract_tables(cat)
  IN  SchemaOf(tables, Concat([ i \in 1..Len(tables) |-> tables[i].foreign_keys ]))

SchemaBanner == << "D","A","T","A","B","A","S","E"," ","S","C","H","E","M","A",":" >>

TableMark == << "T","a","b","l","e",":"," " >>

ItemMark == << " "," ","-"," " >>

RelationshipsBanner == << "R","E","L","A","T","I","O","N","S","H","I","P","S",":" >>

\* the arrow the source writes between the two ends of a relationship
Arrow == << " ","-",">"," " >>

\* lines 56-58: the line of a column
ColumnLine(col) ==
  ItemMark \o col.name \o << " ","(" >> \o col.data_type
    \o (IF col.is_primary_key THEN << " ","(","P","R","I","M","A","R","Y"," ","K","E","Y",")" >> ELSE << >>)
    \o (IF col.is_nullable THEN << >> ELSE << " ","N","O","T"," ","N","U","L","L" >>) \o << ")" >>

\* lines 50-60: the lines of a table
TableLines(t) ==
  << TableMark \o t.name >> \o [ i \in 1..Len(t.columns) |-> ColumnLine(t.columns[i]) ]
    \o << << >> >>

\* line 66: the line of a relationship
ForeignKeyLine(fk) ==
  ItemMark \o fk.from_table \o << "." >> \o fk.from_column \o Arrow
    \o fk.to_table \o << "." >> \o fk.to_column

\* Schema.to_prompt_string
to_prompt_string(s) ==
  LET lines ==
        << SchemaBanner, << >> >>
          \o Concat([ i \in 1..Len(s.tables) |-> TableLines(s.tables[i]) ])
          \o (IF s.foreign_keys # << >>
              THEN << RelationshipsBanner >>
                     \o [ i \in 1..Len(s.foreign_keys) |-> ForeignKeyLine(s.foreign_keys[i]) ]
                     \o << << >> >>
              ELSE << >>)
  IN  Join(lines, "\n")

\* the names tables are created with
TableNames == { << "t" >>, << "B" >> }

\* the rows PRAGMA table_info gives for the columns tables are created with
InfoRows ==
  { [ name |-> << "i","d" >>, type |-> << "I","N","T","E","G","E","R" >>, notnull |-> 1, pk |-> 1 ],
    [ name |-> << "a" >>, type |-> << >>, notnull |-> 0, pk |-> 0 ],
    [ name |-> << "a"," ","(","b" >>, type |-> << "c" >>, notnull |-> 0, pk |-> 0 ] }

\* the rows PRAGMA foreign_key_list gives
ForeignKeyRows == { [ from |-> << "a" >>, table |-> << "B" >>, to |-> << "i","d" >> ] }

\* the column lists of at most k columns with different names
RECURSIVE ColumnLists(_)
ColumnLists(k) ==
  IF k = 1 THEN { << r >> : r \in InfoRows }
  ELSE LET shorter == ColumnLists(k - 1)
       IN  shorter \cup
             { Append(l, r) : <<l, r>> \in
                 { x \in shorter \X InfoRows :
                     /\ Len(x[1]) = k - 1
                     /\ \A i \in 1..Len(x[1]) : x[1][i].name # x[2].name } }

\* the lists PRAGMA foreign_key_list can give for a table with these columns
ForeignKeyLists(l) ==
  { << >> } \cup
    { << r >> : r \in { q \in ForeignKeyRows : \E i \in 1..Len(l) : l[i].name = q.from } }

\* the tables a database holds under a name
TablesNamed(n) ==
  UNION { { [ name |-> n, info |-> l, fk_list |-> f ] : f \in ForeignKeyLists(l) } :
          l \in ColumnLists(MaxColumns) }

\* the databases: tables with different names, in the order they were created
Catalogs ==
  { << >> }
    \cup UNION { { << t1 >> : t1 \in TablesNamed(n) } : n \in TableNames }
    \cup UNION { { << t1, t2 >> : t1 \in TablesNamed(n[1]), t2 \in TablesNamed(n[2]) } :
                 n \in { m \in TableNames \X TableNames : m[1] # m[2] } }

\* no Schema has been extracted
SchemaIdle ==
  /\ catalog = << >>
  /\ schema = NoSchema
  /\ schema_text = None

\* extract() is called on the database
ExtractSchema ==
  /\ schema' = extract(catalog)
  /\ schema_text' = None
  /\ UNCHANGED catalog
  /\ UNCHANGED << execVars, queryVars, knowVars >>

\* to_prompt_string() is called on the extracted Schema
ToPromptString ==
  /\ schema.extracted
  /\ schema_text' = Some(to_prompt_string(schema))
  /\ UNCHANGED << catalog, schema >>
  /\ UNCHANGED << execVars, queryVars, knowVars >>

(***************************************************************************)
(* Specifications                                                          *)
(***************************************************************************)
\* an executor used directly, as the tests and the module's own main block do
Init ==
  /\ ExecInit
  /\ QueryIdle
  /\ kdir = NoDirectory
  /\ KnowledgeNew
  /\ SchemaIdle
  /\ max_retries = MaxRetries
  /\ sql_only = FALSE

Next == Execute \/ Consume \/ Finalize

Spec == Init /\ [][Next]_vars

\* the values of max_results a configuration file can hold: main passes the value
\* on as it reads it
ConfiguredMaxResults == { 0 } \cup MaxResultsValues

\* an executor built from a configuration file and used directly
ConfigInit ==
  /\ read_only \in BOOLEAN
  /\ max_results \in ConfiguredMaxResults
  /\ db = InitialDb
  /\ conns = 0
  /\ calls = 0
  /\ ret = NoReturn
  /\ call = [ NoCall EXCEPT !.dbBefore = InitialDb ]
  /\ QueryIdle
  /\ kdir = NoDirectory
  /\ KnowledgeNew
  /\ SchemaIdle
  /\ max_retries = MaxRetries
  /\ sql_only = FALSE

ConfigSpec == ConfigInit /\ [][Next]_vars

\* questions answered by process_query
QueryInit ==
  /\ ExecInit
  /\ max_results = SetMin(MaxResultsValues)
  /\ QueryIdle
  /\ kdir = NoDirectory
  /\ KnowledgeNew
  /\ SchemaIdle
  /\ max_retries \in 0..MaxRetries
  /\ sql_only \in BOOLEAN

QueryNext == PQStart \/ PQGenerate \/ PQExecute \/ Finalize

QuerySpec == QueryInit /\ [][QueryNext]_vars

\* process_query runs on: a call of the backend that has been reached is made and
\* comes back or raises, and so does a call of the executor.  PQExecute is enabled
\* exactly while pc = "execute" and each of its steps leaves that position, so its
\* weak fairness is written as the position being left again and again.
QueryFairSpec == QuerySpec /\ WF_vars(PQGenerate) /\ []<>(pc # "execute")

InteractiveNext ==
  PQStart \/ NextQuestion \/ Interrupt \/ PQGenerate \/ PQExecute \/ Finalize

\* the retry budgets interactive sessions are run with
InteractiveBudgets == { 0, 2 }

InteractiveInit ==
  /\ QueryInit
  /\ max_retries \in InteractiveBudgets

InteractiveSpec == InteractiveInit /\ [][InteractiveNext]_vars

\* a loader used directly on a knowledge directory that stays as it is
KnowledgeInit ==
  /\ ExecInit
  /\ read_only
  /\ max_results = SetMin(MaxResultsValues)
  /\ QueryIdle
  /\ max_retries = MaxRetries
  /\ sql_only = FALSE
  /\ kdir \in Directories
  /\ KnowledgeNew
  /\ SchemaIdle

KnowledgeNext == LoadFile \/ LoadAll \/ FindRelevantFiles \/ GetContext \/ ExtractKeywords

KnowledgeSpec == KnowledgeInit /\ [][KnowledgeNext]_vars

\* an extractor used directly on a database
SchemaInit ==
  /\ ExecInit
  /\ read_only
  /\ max_results = SetMin(MaxResultsValues)
  /\ QueryIdle
  /\ max_retries = MaxRetries
  /\ sql_only = FALSE
  /\ kdir = NoDirectory
  /\ KnowledgeNew
  /\ catalog \in Catalogs
  /\ schema = NoSchema
  /\ schema_text = None

SchemaNext == ExtractSchema \/ ToPromptString

SchemaSpec == SchemaInit /\ [][SchemaNext]_vars

\* a loader used directly while the knowledge directory, which starts with one
\* file, is changed from outside
SessionInit ==
  /\ KnowledgeInit
  /\ kdir.exists
  /\ Len(kdir.files) = 1

SessionNext ==
  LoadFile \/ LoadAll \/ FindRelevantFiles \/ GetContext \/ WriteFile \/ DeleteFile

SessionSpec == SessionInit /\ [][SessionNext]_vars

(***************************************************************************)
(* Properties of QueryExecutor.execute, checked under Spec                 *)
(***************************************************************************)
\* execute() has come back to its caller and the caller still holds what it got
CallEnded == ret.kind # "none"

\* the text holds one of the eight mutating keywords as a whole word, in any letter case
HasWriteKeyword(text) ==
  \E k \in DOMAIN WRITE_PATTERNS : WordSearch(Upper(text), WRITE_PATTERNS[k])

\* the text differs from its uppercased form
HasSmallLetters(text) == text # Upper(text)

\* the number of non-blank pieces between the semicolons of the text
NonBlankStatements(text) ==
  LET pieces == Split(text, ";")
  IN  Cardinality({ i \in 1..Len(pieces) : Strip(pieces[i]) # << >> })

\* the lowercased error of the returned result holds the word
ErrorMentions(word) ==
  /\ ret.kind = "result"
  /\ ret.value.error.some
  /\ Contains(Lower(ret.value.error.text), word)

BlockedWord == << "b","l","o","c","k","e","d" >>

MultipleWord == << "m","u","l","t","i","p","l","e" >>

\* C1: a read-only executor answers every candidate that holds a mutating keyword
\* as a whole word, in any letter case, with success = false and an error whose
\* lowercased text contains "blocked", and the database is the same after the call
\* as before it.
C1_ReadOnlyBlocksWriteKeywords ==
  (CallEnded /\ read_only /\ HasWriteKeyword(call.arg)) =>
     /\ ret.kind = "result"
     /\ ~ret.value.success
     /\ ErrorMentions(BlockedWord)
     /\ db = call.dbBefore

\* C1, witness: a read-only executor was given a keyword in small or mixed letters
\* and blocked it.
C1_Witness ==
  /\ CallEnded /\ read_only
  /\ HasWriteKeyword(call.arg) /\ HasSmallLetters(call.arg)
  /\ ~ret.value.success /\ ErrorMentions(BlockedWord)
  /\ db = call.dbBefore

\* C2 as stated: every candidate with more than one non-blank statement between
\* its semicolons is answered with success = false and an error whose lowercased
\* text contains "multiple", whether the executor is read-only or not and whether
\* or not the candidate holds a mutating keyword.
C2_MultipleAlwaysReported ==
  (CallEnded /\ NonBlankStatements(call.arg) > 1) =>
     /\ ret.kind = "result"
     /\ ~ret.value.success
     /\ ErrorMentions(MultipleWord)

\* C2, amended: every candidate with more than one non-blank statement between its
\* semicolons is answered with success = false and never reaches the database; the
\* error contains "multiple" unless the executor is read-only and the candidate
\* holds a mutating keyword as a whole word, and then the error is the "blocked"
\* one of the rule that is checked first.
C2_MultipleRejected ==
  (CallEnded /\ NonBlankStatements(call.arg) > 1) =>
     /\ ret.kind = "result"
     /\ ~ret.value.success
     /\ ~call.connected /\ call.submitted = << >> /\ db = call.dbBefore
     /\ IF read_only /\ HasWriteKeyword(call.arg)
        THEN ErrorMentions(BlockedWord) /\ ~ErrorMentions(MultipleWord)
        ELSE ret.value.error = Some(MultipleMessage) /\ ErrorMentions(MultipleWord)

\* C2, witness: an executor that is not read-only refused two statements of which
\* one holds a mutating keyword, with the "multiple" error.
C2_Witness ==
  /\ CallEnded /\ ~read_only
  /\ NonBlankStatements(call.arg) > 1 /\ HasWriteKeyword(call.arg)
  /\ ~ret.value.success /\ ErrorMentions(MultipleWord)

\* C3: whatever happens at the database, execute() returns a QueryResult and no
\* exception leaves it; when the engine raised an error (the connection failure
\* included) the error field is the text of the engine, unchanged.
C3_AlwaysReturnsResult ==
  /\ ret.kind \in { "none", "result" }
  /\ (CallEnded /\ call.outcome \in { "dberror", "connfail" }) =>
        /\ ~ret.value.success
        /\ ret.value.error = Some(call.enginetext)
  /\ (CallEnded /\ call.outcome = "other") =>
        /\ ~ret.value.success
        /\ ret.value.error.some

\* C3, witness: the engine refused a statement and execute() returned its text.
C3_Witness ==
  /\ CallEnded /\ call.outcome = "dberror" /\ call.connected
  /\ ret.kind = "result"
  /\ ret.value.error = Some(SyntaxErrorText)

\* C4 as stated: a call that opened a connection has closed it when it returns,
\* and no connection opened by the executor is open after a call.
C4_ConnectionClosedOnReturn ==
  CallEnded => /\ call.connected => call.closed
               /\ conns = 0

\* C5: when the validator rejects the candidate, execute() opens no connection and
\* submits nothing, and returns success = false, no columns, no rows, row_count 0
\* and the reason of the validator as the error.
C5_RejectionLeavesDatabaseAlone ==
  CallEnded =>
    LET verdict == call.verdict
    IN  ~verdict.safe =>
          /\ ~call.connected /\ call.submitted = << >> /\ call.executed = 0
          /\ db = call.dbBefore
          /\ ret.kind = "result"
          /\ ~ret.value.success
          /\ ret.value.columns = << >> /\ ret.value.rows = << >>
          /\ ret.value.row_count = 0
          /\ ret.value.error = Some(verdict.msg)
          /\ verdict.msg # << >>

\* C5, witness: a candidate was rejected for its second statement and the result
\* carries that reason.
C5_Witness ==
  /\ CallEnded /\ ~call.verdict.safe
  /\ ~call.connected
  /\ ret.value.error = Some(MultipleMessage)
  /\ ret.value.row_count = 0

\* the validator let the candidate of the last call through: is_safe at line 94
Accepted == call.verdict.safe

\* the candidate, once trimmed, is a statement whose leading keyword is SELECT
IsSelect(text) == FirstWord(CleanUpSql(text)) = KwSelect

\* " LIMIT n" for the configured maximum
ConfiguredLimit == << " " >> \o KwLimit \o << " " >> \o IntToText(max_results)

\* C6 as stated: every call submits exactly one statement to the database, and
\* exactly one statement runs there.
C6_ExactlyOneStatement ==
  CallEnded => /\ Len(call.submitted) = 1
               /\ call.executed = 1

\* C6, amended: at most one statement touches the database per call.  A call whose
\* candidate the validator rejects, or whose connection cannot be opened, submits
\* nothing; every other call submits exactly one text, and of that text the engine
\* runs at most one statement: none when the text is blank or the engine refuses
\* it, and the database changes only when one statement ran.
C6_AtMostOneStatement ==
  CallEnded =>
    LET accepted == Accepted
    IN  /\ call.executed \in { 0, 1 }
        /\ Len(call.submitted) = (IF accepted /\ call.connected THEN 1 ELSE 0)
        /\ ~accepted => ~call.connected
        /\ call.outcome = "connfail" <=> (accepted /\ ~call.connected)
        /\ call.executed = 1 =>
              LET first == FirstStatement(call.submitted[1])
              IN  /\ Strip(first.tail) = << >>
                  /\ Strip(first.stmt) # << >>
        /\ db # call.dbBefore => call.executed = 1

\* C6, witness: a candidate that closes with a semicolon was accepted, submitted
\* without it, and one statement ran.
C6_Witness ==
  /\ CallEnded /\ Accepted /\ call.connected
  /\ EndsWith(Strip(call.arg), << ";" >>)
  /\ Len(call.submitted) = 1 /\ ~Contains(call.submitted[1], << ";" >>)
  /\ call.executed = 1

\* C7 as stated: for every accepted candidate that is a SELECT without a LIMIT
\* clause, one whose names merely contain the letters "limit" included, the text
\* submitted to the database and recorded in the result ends with a LIMIT clause of
\* the configured max_results.
C7_LimitAppended ==
  (CallEnded /\ Accepted /\ IsSelect(call.arg)
     /\ LimitClause(CleanUpSql(call.arg)).kind = "none") =>
     /\ ret.kind = "result"
     /\ ret.value.sql.some
     /\ EndsWith(ret.value.sql.text, ConfiguredLimit)
     /\ call.connected => /\ call.submitted = << ret.value.sql.text >>
                          /\ EndsWith(call.submitted[1], ConfiguredLimit)

\* C8: for every accepted candidate that is a SELECT with a LIMIT clause of its
\* own, the text submitted and recorded is the trimmed candidate itself, with no
\* second LIMIT and the same count, and a successful result has at most that
\* many rows.
C8_ExplicitLimitKept ==
  CallEnded =>
    LET trimmed == CleanUpSql(call.arg)
        limit   == LimitClause(trimmed)
    IN  (FirstWord(trimmed) = KwSelect /\ limit.kind = "count" /\ Accepted) =>
          /\ ret.kind = "result"
          /\ ret.value.sql = Some(trimmed)
          /\ call.connected => call.submitted = << trimmed >>
          /\ ret.value.success =>
                /\ ret.value.row_count <= limit.n
                /\ Len(ret.value.rows) = ret.value.row_count

\* C8, witness: a SELECT with a LIMIT below both the stored rows and max_results
\* succeeded with exactly that many rows.
C8_Witness ==
  /\ CallEnded /\ Accepted /\ IsSelect(call.arg)
  /\ LimitClause(CleanUpSql(call.arg)).kind = "count"
  /\ LimitClause(CleanUpSql(call.arg)).n < max_results
  /\ LimitClause(CleanUpSql(call.arg)).n < call.dbBefore.rows
  /\ ret.value.success
  /\ ret.value.row_count = LimitClause(CleanUpSql(call.arg)).n
  /\ ret.value.sql = Some(CleanUpSql(call.arg))

\* C9: in every result execute() returns, success comes without an error, and a
\* failure comes with an error, no columns, no rows and row_count 0.
C9_ResultShape ==
  ret.kind = "result" =>
     /\ ret.value.success => ~ret.value.error.some
     /\ ~ret.value.success =>
          /\ ret.value.error.some
          /\ ret.value.columns = << >>
          /\ ret.value.rows = << >>
          /\ ret.value.row_count = 0

\* C9, witness: a statement failed at the engine and the result carries the error
\* and nothing else.
C9_Witness ==
  /\ ret.kind = "result" /\ call.connected /\ call.outcome # "ok"
  /\ ~ret.value.success /\ ret.value.error.some
  /\ ret.value.rows = << >> /\ ret.value.row_count = 0

(***************************************************************************)
(* Properties of process_query, checked under QuerySpec                    *)
(***************************************************************************)
\* every generation call so far returned a candidate, and every candidate failed
\* in execute(): rejected by the validator or refused at the database
EveryAttemptFailed ==
  /\ tally.genfail = 0
  /\ tally.exec = tally.gen
  /\ tally.execfail = tally.exec

C11_SuccessEndsQuestion ==
  (~sql_only /\ ret.kind = "result" /\ ret.value.success) =>
     /\ pc = "done"
     /\ returned = Some(sql)
     /\ call.arg = sql
     /\ tally.gen = attempt + 1
     /\ tally.gen <= max_retries
     /\ read_only => db = InitialDb

\* a step of process_query in which the backend raised
BackendRaises == pc = "generate" /\ tally'.genfail = tally.genfail + 1

GenerationStep == pc = "generate" /\ tally'.gen = tally.gen + 1

\* the block a prompt carries after the statement q failed with the error e
FailedAttemptBlock(q, e) ==
  << "S","Q","L",":"," " >> \o q \o << "\n" >> \o << "E","r","r","o","r",":"," " >> \o e

\* C13: within a question the prompt of the first attempt carries no block about a
\* previous attempt; the prompt of the attempt that follows a failed execution
\* carries the block built from the cleaned candidate and the error of exactly that
\* failed attempt; and the attempt counter grows by one with every failed attempt
\* that is retried, so that it counts the generation calls made.
C13_PromptCarriesLastFailure ==
  [][ /\ GenerationStep =>
           /\ tally.gen = attempt
           /\ attempt = 0 => prompt' = None
           /\ (ret.kind = "result" /\ ~ret.value.success) =>
                /\ attempt > 0
                /\ call.arg = sql
                /\ prompt' = Some(FailedAttemptBlock(sql, ret.value.error.text))
      /\ (pc = "execute" /\ ret'.kind = "result" /\ ~ret'.value.success) =>
           /\ tally.gen = attempt + 1
           /\ IF attempt + 1 < max_retries
              THEN attempt' = attempt + 1 /\ pc' = "generate"
              ELSE attempt' = attempt /\ pc' = "done"
    ]_vars

\* C13, witness: the third attempt was generated from a prompt whose block holds
\* the second candidate and its error, after two candidates failed.
C13_Witness ==
  /\ pc = "execute" /\ attempt = 2
  /\ tally = [ gen |-> 3, exec |-> 2, execfail |-> 2, genfail |-> 0 ]
  /\ prompt.some
  /\ StartsWith(prompt.text, << "S","Q","L",":"," ","D","R","O","P" >>)
  /\ EndsWith(prompt.text, SyntaxErrorText)

\* a response has been received and cleaned
ResponseCleaned == tally.gen > tally.genfail

\* the response, trimmed, begins with a fence and ends with a fence
FenceWrapped(content) ==
  LET s == Strip(content)
  IN  Len(s) >= 2 * Len(Fence) /\ StartsWith(s, Fence) /\ EndsWith(s, Fence)

\* C14 as stated: the candidate cleaned out of a response that is wrapped in a fenced
\* block holds no fence marker and no leading or trailing whitespace, and it is
\* that candidate the executor is given; a response that does not begin with a
\* fence is only trimmed.
C14_FenceStripped ==
  ResponseCleaned =>
     /\ FenceWrapped(raw) =>
          /\ ~Contains(sql, Fence)
          /\ sql = Strip(sql)
     /\ ~StartsWith(Strip(raw), Fence) => sql = Strip(raw)
     /\ (ret.kind = "result") => call.arg = sql

(***************************************************************************)
(* Properties of KnowledgeLoader, checked under KnowledgeSpec and          *)
(* SessionSpec                                                             *)
(***************************************************************************)
\* the last call made on the loader was the method op
Called(op) == kret.op = op

\* the files of the knowledge directory, each with its name and its content
Documents == { kdir.files[i] : i \in 1..Len(kdir.files) }

\* the keywords of the question and the table names of the last call
CallKeywords ==
  extract_keywords(kret.arg.query) \cup
    { Lower(kret.arg.table_names[i]) : i \in 1..Len(kret.arg.table_names) }

\* the document is matched by a keyword: its stem is one, its stem holds one, or
\* its lowercased content holds two different ones
MatchedByKeyword(f, kws) ==
  LET stem == Lower(Stem(f.name))
  IN  \/ stem \in kws
      \/ \E kw \in kws : In(kw, stem)
      \/ Cardinality({ kw \in kws : In(kw, Lower(f.content)) }) >= 2

\* the section get_context renders for a document
Section(f) == HeadingMark \o f.name \o << "\n" >> \o Strip(f.content) \o << "\n" >>

\* C15: get_context returns the empty string when there is no knowledge directory,
\* no document, or no document selected, and every non-empty text it returns starts
\* with the banner and holds the heading and the content of at least one document
\* that has content: a banner without a section is never returned.
C15_ContextBannerHasSection ==
  Called("get_context") =>
     /\ (~kdir.exists \/ Documents = {}) => kret.value.text = << >>
     /\ (\A f \in Documents : f.name # JoinsFile /\ ~MatchedByKeyword(f, CallKeywords))
           => kret.value.text = << >>
     /\ kret.value.text # << >> =>
           /\ StartsWith(kret.value.text, Banner \o << "\n" >>)
           /\ \E f \in Documents : f.content # << >> /\ Contains(kret.value.text, Section(f))

\* the document of the knowledge directory with that name
Document(filename) == CHOOSE f \in Documents : f.name = filename

\* C16: when _joins.md is in the knowledge directory, find_relevant_files returns it
\* exactly once, as the last element whenever no keyword matched it, whatever the
\* question and the table names are; and no filename is returned twice.
C16_JoinsOnceAndLast ==
  Called("find_relevant_files") =>
     LET r == kret.value.names
     IN  /\ \A i, j \in 1..Len(r) : r[i] = r[j] => i = j
         /\ FileExists(kdir, JoinsFile) =>
               /\ Cardinality({ i \in 1..Len(r) : r[i] = JoinsFile }) = 1
               /\ ~MatchedByKeyword(Document(JoinsFile), CallKeywords)
                     => r[Len(r)] = JoinsFile

\* _joins.md is enumerated first, no keyword matches it, and it is returned after
\* a matched document
C16_Witness ==
  /\ Called("find_relevant_files")
  /\ Len(kdir.files) = 2
  /\ kdir.files[1].name = JoinsFile
  /\ ~MatchedByKeyword(Document(JoinsFile), CallKeywords)
  /\ kret.value.names = << kdir.files[2].name, JoinsFile >>

\* the place of the file in the enumeration of the knowledge directory
Place(filename) == CHOOSE i \in 1..Len(kdir.files) : kdir.files[i].name = filename

\* C17: with the keywords of the question united with the lowercased table names, a
\* document other than _joins.md is in the result of find_relevant_files if and only
\* if its lowercased stem is a keyword, or holds one, or its lowercased content holds
\* at least two different keywords, so that one content match alone never selects
\* it; and the selected documents come in the order the directory enumerates them.
C17_SelectionRule ==
  Called("find_relevant_files") =>
     LET r == kret.value.names
         kws == CallKeywords
     IN  /\ \A f \in Documents :
               f.name # JoinsFile => (f.name \in Range(r) <=> MatchedByKeyword(f, kws))
         /\ \A i, j \in 1..Len(r) :
               (i < j /\ r[i] # JoinsFile /\ r[j] # JoinsFile) => Place(r[i]) < Place(r[j])
         /\ Range(r) \subseteq { f.name : f \in Documents }

\* two documents are returned in enumeration order, the first for two keywords in
\* its content and the second for a keyword in its stem
C17_Witness ==
  /\ Called("find_relevant_files")
  /\ Len(kdir.files) = 2
  /\ kret.value.names = << kdir.files[1].name, kdir.files[2].name >>
  /\ ~StemMatch(kdir.files[1].name, CallKeywords)
  /\ Cardinality({ kw \in CallKeywords : In(kw, Lower(kdir.files[1].content)) }) = 2
  /\ StemMatch(kdir.files[2].name, CallKeywords)
  /\ Lower(Stem(kdir.files[2].name)) \notin CallKeywords
  /\ JoinsFile \notin Range(kret.value.names)

\* the maximal runs of letters of the lowercased text
AlphabeticRuns(text) ==
  LET s == Lower(text)
      Letter(i) == i >= 1 /\ i <= Len(s) /\ s[i] \in LowerSet
  IN  { SubSeq(s, p[1], p[2]) : p \in
          { q \in (1..Len(s)) \X (1..Len(s)) :
              /\ q[1] <= q[2]
              /\ \A k \in q[1]..q[2] : Letter(k)
              /\ ~Letter(q[1] - 1)
              /\ ~Letter(q[2] + 1) } }

\* C18: extract_keywords returns exactly the lowercased maximal alphabetic runs of
\* the text that are at least three letters long and are no stop word, for every
\* text, also one where letters stand next to digits or underscores.
C18_KeywordsAreAlphabeticRuns ==
  Called("extract_keywords") =>
     kret.value.words = { w \in AlphabeticRuns(kret.arg.text) : Len(w) >= 3 /\ w \notin stop_words }

\* C19: the cache only grows: while load_file, load_all, find_relevant_files and
\* get_context are called and the files are rewritten or deleted from outside, an
\* entry once cached is never removed or overwritten, and every later load_file of
\* its filename returns the cached text.
C19_CacheKeepsAndServes ==
  [][ /\ \A n \in DOMAIN cache : n \in DOMAIN cache' /\ cache'[n] = cache[n]
      /\ LoadFile => (kret'.arg.name \in DOMAIN cache
                      => kret'.value.content = Some(cache[kret'.arg.name]))
    ]_vars

(***************************************************************************)
(* Not-found errors, checked under QuerySpec                               *)
(***************************************************************************)
\* the text reports that the table a statement names is missing
ReportsMissingTable(text) == Contains(text, NoSuchTableText)

\* C20: a missing table is raised as a not-found error before the retry loop
\* begins: process_query never takes it as the failure of an attempt that is
\* retried, so no error context carries it to another generation call and no
\* prompt holds it.
C20_MissingTableNotRetried ==
  /\ error_context.some => ~ReportsMissingTable(error_context.text)
  /\ prompt.some => ~ReportsMissingTable(prompt.text)

(***************************************************************************)
(* Properties of SchemaExtractor, checked under SchemaSpec                 *)
(***************************************************************************)
\* the numbers of the set in ascending order
RECURSIVE Ascending(_)
Ascending(S) ==
  IF S = {} THEN << >> ELSE << SetMin(S) >> \o Ascending(S \ { SetMin(S) })

\* the column name read off a column line: what stands between the item mark and
\* the first " ("
ParsedColumnName(line) ==
  SubSeq(line, Len(ItemMark) + 1, SetMin(Occurrences(line, << " ", "(" >>)) - 1)

\* the column lines that follow line i without a gap
ColumnLinesBelow(lines, i) ==
  { j \in (i + 1)..Len(lines) : \A k \in (i + 1)..j : StartsWith(lines[k], ItemMark) }

\* the tables read off the text: the name of every "Table: " line, each with the
\* column names of the lines below it
ParsedTables(text) ==
  LET lines == Split(text, "\n")
      at == Ascending({ i \in 1..Len(lines) : StartsWith(lines[i], TableMark) })
  IN  [ n \in 1..Len(at) |->
          LET below == Ascending(ColumnLinesBelow(lines, at[n]))
          IN  [ name |-> SubSeq(lines[at[n]], Len(TableMark) + 1, Len(lines[at[n]])),
                columns |-> [ k \in 1..Len(below) |-> ParsedColumnName(lines[below[k]]) ] ] ]

\* the table and column names of the extracted Schema
ExtractedNames ==
  [ n \in 1..Len(schema.tables) |->
      [ name |-> schema.tables[n].name,
        columns |-> [ k \in 1..Len(schema.tables[n].columns) |->
                        schema.tables[n].columns[k].name ] ] ]

\* the relationship lines of the text: the item lines below the banner
ParsedRelationships(text) ==
  LET lines == Split(text, "\n")
      at == { i \in 1..Len(lines) : lines[i] = RelationshipsBanner }
  IN  IF at = {} THEN << >>
      ELSE LET below == Ascending(ColumnLinesBelow(lines, SetMin(at)))
           IN  [ k \in 1..Len(below) |-> lines[below[k]] ]

\* C21: the text to_prompt_string gives for an extracted Schema, read for its
\* "Table: <name>" lines and its "<col> (" column lines, gives back exactly the table
\* names and for each table the column names that were extracted, in the same
\* order, tables sorted by name and columns as stored; and the RELATIONSHIPS block
\* is there exactly when the Schema has a foreign key, with every edge listed in
\* the order of extraction.
C21_PromptStringRoundTrip ==
  schema_text.some =>
     /\ ParsedTables(schema_text.text) = ExtractedNames
     /\ \A i, j \in 1..Len(schema.tables) :
           i < j => TextLess(schema.tables[i].name, schema.tables[j].name)
     /\ \A n \in 1..Len(schema.tables) :
           Len(schema.tables[n].columns) = Len(TableNamed(catalog, schema.tables[n].name).info)
     /\ Contains(schema_text.text, RelationshipsBanner) <=> schema.foreign_keys # << >>
     /\ schema.foreign_keys =
           Concat([ n \in 1..Len(schema.tables) |-> schema.tables[n].foreign_keys ])
     /\ ParsedRelationships(schema_text.text) =
           [ k \in 1..Len(schema.foreign_keys) |-> ForeignKeyLine(schema.foreign_keys[k]) ]

(***************************************************************************)
(* Further properties of QueryExecutor.execute                             *)
(***************************************************************************)
\* C22: every successful result has row_count equal to the number of rows it holds
\* and at most the configured max_results, whatever the statement is: also one that
\* gets no LIMIT appended, and a SELECT whose own LIMIT is larger than max_results.
C22_RowCountCapped ==
  (CallEnded /\ ret.kind = "result" /\ ret.value.success) =>
     /\ ret.value.row_count = Len(ret.value.rows)
     /\ ret.value.row_count <= max_results

\* the candidate trimmed, with one semicolon dropped from its end
TrimmedCandidate(text) ==
  LET s == Strip(text)
  IN  IF s # << >> /\ s[Len(s)] = ";" THEN SubSeq(s, 1, Len(s) - 1) ELSE s

\* the clause execute appends
LimitSuffix == << " ","L","I","M","I","T"," " >> \o IntToText(max_results)

\* C23: whenever execute submits a statement to the database, whether the statement
\* then succeeds or fails with an error of the engine, the sql field of the result
\* is exactly the text that was submitted, which is the candidate trimmed, without
\* one trailing semicolon, with or without the appended LIMIT clause, and not the
\* raw candidate.
C23_ResultHoldsSubmittedText ==
  (CallEnded /\ call.submitted # << >>) =>
     /\ ret.kind = "result"
     /\ ret.value.sql = Some(call.submitted[1])
     /\ call.submitted[1] \in
          { TrimmedCandidate(call.arg), TrimmedCandidate(call.arg) \o LimitSuffix }

\* a statement that differs from its candidate was submitted and the engine
\* refused it
C23_Witness ==
  /\ CallEnded
  /\ call.submitted # << >>
  /\ call.outcome = "dberror"
  /\ ret.value.sql.text # call.arg
  /\ ret.value.sql.text = TrimmedCandidate(call.arg) \o LimitSuffix
  /\ EndsWith(call.arg, << ";" >>)

\* the characters identifiers are made of: letters, digits and the underscore
IdentifierChars == WordChars

\* every occurrence of a mutating keyword in the text, in whatever letter case, is a
\* proper part of a longer identifier: an identifier character stands directly
\* before it or directly after it
KeywordsOnlyInsideIdentifiers(text) ==
  LET t == Lower(text)
  IN  \A k \in DOMAIN WRITE_PATTERNS :
        LET kw == Lower(WRITE_PATTERNS[k])
        IN  \A i \in Occurrences(t, kw) :
              \/ (i > 1 /\ t[i - 1] \in IdentifierChars)
              \/ (i + Len(kw) <= Len(t) /\ t[i + Len(kw)] \in IdentifierChars)

\* the validator turned the candidate down under its rule about write operations
RejectedByRule1 == ~call.verdict.safe /\ StartsWith(call.verdict.msg, BlockedPrefix)

\* C24: rule 1 of the validator rejects a candidate only in read-only mode and only
\* when a mutating keyword stands as a whole word: a candidate whose mutating
\* keywords are all proper parts of longer identifiers of letters, digits and
\* underscores is not rejected by rule 1, in any letter case, and with read_only
\* false rule 1 rejects nothing.
C24_Rule1NeedsWholeWord ==
  (CallEnded /\ RejectedByRule1) =>
     /\ read_only
     /\ ~KeywordsOnlyInsideIdentifiers(call.arg)

(***************************************************************************)
(* Properties of interactive_mode, checked under InteractiveSpec           *)
(***************************************************************************)
\* a question is passed to process_query in this step
QuestionAccepted == asked' = asked + 1

\* the first generation call of the current question is made in this step
FirstGeneration == tally.gen = 0 /\ tally'.gen = 1

\* a call is made for the current question in this step
AttemptMade == asked' = asked /\ tally' # tally

\* C25: across any sequence of questions processed in interactive mode, retry state
\* never carries over: a question is accepted only when none is being answered,
\* it starts at attempt 0 with no error context and no call made, its first prompt
\* carries no error context whatever the outcome of the question before it, and
\* every generation and execute call is made for the question accepted last.
C25_RetryStateNotCarriedOver ==
  [][ /\ QuestionAccepted =>
           /\ pc \in { "idle", "done" }
           /\ attempt' = 0
           /\ error_context' = None
           /\ tally' = NoTally
           /\ returned' = None
      /\ FirstGeneration =>
           /\ attempt = 0
           /\ error_context = None
           /\ prompt' = None
      /\ AttemptMade =>
           /\ pc \in { "generate", "execute" }
           /\ tally'.gen + tally'.exec = tally.gen + tally.exec + 1
           /\ tally'.gen <= attempt + 1
      /\ asked' \in { asked, asked + 1 }
    ]_vars

\* the second question of a session made its first generation call with a prompt
\* free of error context, after a first question that used up its budget and left
\* error context behind
C25_Witness ==
  /\ asked = 2
  /\ previous.some /\ ~previous.success /\ previous.had_error /\ previous.attempt = 1
  /\ tally.gen = 1
  /\ pc = "execute"
  /\ prompt = None
  /\ attempt = 0

\* the second question follows one that succeeded on a retry
C25_WitnessAfterSuccess ==
  /\ asked = 2
  /\ previous.success /\ previous.had_error
  /\ tally.gen = 1
  /\ prompt = None

\* C26: for every candidate the validator accepts, the normalized text that execute
\* submits to the database holds at most one non-empty piece between semicolons:
\* neither dropping a single trailing semicolon nor appending the LIMIT clause
\* leaves a semicolon followed by further non-blank text.
C26_SubmittedTextIsOneStatement ==
  (CallEnded /\ call.verdict.safe /\ call.submitted # << >>) =>
     NonBlankStatements(call.submitted[1]) <= 1

(***************************************************************************)
(* Further properties of process_query, checked under QueryFairSpec and    *)
(* QuerySpec                                                               *)
(***************************************************************************)
\* the calls made so far stay within the budget, and a budget of 0 ends the
\* question at once with no call made and no SQL returned
CallsWithinBudget ==
  /\ tally.gen <= max_retries
  /\ tally.exec <= max_retries
  /\ tally.exec <= tally.gen
  /\ (max_retries = 0 /\ pc # "idle") =>
        (pc = "done" /\ tally = NoTally /\ returned = None /\ call.arg = << >>)

\* an execute call is made only by the attempt whose generation call was made last,
\* and a generation call only by an attempt that has made no call yet
CallsInOrder ==
  /\ tally'.exec # tally.exec =>
        /\ pc = "execute"
        /\ tally'.exec = tally.exec + 1
        /\ tally'.gen = tally.gen
        /\ tally.gen = attempt + 1
        /\ tally.exec <= attempt
  /\ tally'.gen # tally.gen =>
        /\ pc = "generate"
        /\ tally'.gen = tally.gen + 1
        /\ tally.gen = attempt
        /\ attempt < max_retries

====
